---------------------------- MODULE Spec2Model ----------------------------
(***************************************************************************)
(* Model of the timeline store (stores/timeline-store, a zustand store):   *)
(* tracks of trimmable, splittable clips, the playhead, the total duration *)
(* and the zoom/scroll viewport.                                           *)
(*                                                                         *)
(* Time values of clips, the playhead and the total duration are exact     *)
(* fixed-point numbers in tenths of a second (0.1 s = 1, 300 s = 3000).    *)
(* Zoom level, viewport duration and scroll position are exact rationals   *)
(* <<numerator, denominator>> in lowest terms; viewport and scroll are in  *)
(* tenths of a second as well.  Floating-point rounding is not modelled    *)
(* there; SpecF64 models the zoom operations in IEEE-754 binary64.         *)
(***************************************************************************)
EXTENDS Integers, Sequences, FiniteSets, TLC

VARIABLES
    tracks,            \* TimelineTrack[]  (sequence of track records)
    playheadPosition,  \* tenths of a second
    isPlaying,         \* boolean
    totalDuration,     \* tenths of a second
    zoomLevel,         \* rational
    scrollPosition,    \* rational, tenths of a second
    viewportDuration,  \* rational, tenths of a second
    nextId,            \* number of ids crypto.randomUUID() has issued
    calls,             \* number of store calls and pointer events so far
    \* the preview panel's playback effect
    timelineIsPlaying,    \* isPlaying as the last committed render saw it
    playbackIntervalRef,  \* playbackIntervalRef.current: <<>> (null) or <<id>>
    intervals,            \* ids of the intervals that are set and not cleared
    nextTimer,            \* number of ids setInterval() has returned
    \* the drag gestures of the timeline (clip body, trim handles, playhead)
    listeners,            \* the mousemove/mouseup listener pairs registered on
                          \* document, in registration order, each with the
                          \* values its closure captured at the press
    pressed               \* the mouse button is held down

\* the state of the preview panel
previewVars == <<timelineIsPlaying, playbackIntervalRef, intervals, nextTimer>>

\* the state of the drag gestures
gestureVars == <<listeners, pressed>>

vars == <<tracks, playheadPosition, isPlaying, totalDuration, zoomLevel,
          scrollPosition, viewportDuration, nextId, calls,
          timelineIsPlaying, playbackIntervalRef, intervals, nextTimer,
          listeners, pressed>>

---------------------------------------------------------------------------
(* Bounds of the model *)

\* the number of store calls in a run
MaxCalls == 4
\* the number of intervals set in a run by effect runs that no store call asked for
MaxTimers == 2
\* the playhead position, in tenths of a second, at which the ticks of
\* SpecPlaybackFair stop
PlayheadCap == 3060

(* Arguments the store operations are called with *)

\* an optional argument is <<>> (undefined) or <<value>>
Undef == <<>>
Some(x) == <<x>>
\* an id that crypto.randomUUID() never issued
NoId == 0
TrackTypes == {"video"}
MediaIds == {"m1", "m2"}
Durations == {30, 50}
StartHints == {0, 70}
OriginalDurationHints == {40}
TrimStartArgs == {Undef, Some(-10), Some(20), Some(50)}
TrimEndArgs == {Undef, Some(40), Some(60)}
SplitTimes == {0, 20}
StartTimes == {-10, 0, 2980}
IndexArgs == {Undef, Some(-1), Some(0), Some(3)}
PlayheadArgs == {-5, 2700, 2900}
ZoomArgs == {0, 2, 20}
ScrollArgs == {-10, 100, 4000}
ViewportArgs == {5, 300}

(* Pointer events of the drag gestures *)

\* offsetWidth of .track-clips-container and width of the ruler, in pixels
ContainerWidths == {600, 1200}
\* e.clientX - startX of a mousemove, in pixels
PixelDeltas == {-1200, 120, 6000}
\* e.clientX - rect.left of a mousemove over the ruler, in pixels
RulerOffsets == {-300, 300}

---------------------------------------------------------------------------
(* Arithmetic *)

Max(a, b) == IF a >= b THEN a ELSE b
Min(a, b) == IF a <= b THEN a ELSE b

RECURSIVE Gcd(_, _)
Gcd(a, b) == IF b = 0 THEN a ELSE Gcd(b, a % b)

Abs(a) == IF a < 0 THEN -a ELSE a

\* the rational n/d (d > 0) in lowest terms
Rat(n, d) == LET g == Gcd(Abs(n), d) IN <<n \div g, d \div g>>
RInt(n) == <<n, 1>>
RLe(p, q) == p[1] * q[2] <= q[1] * p[2]
RMax(p, q) == IF RLe(q, p) THEN p ELSE q
RMin(p, q) == IF RLe(p, q) THEN p ELSE q
RAdd(p, q) == Rat(p[1] * q[2] + q[1] * p[2], p[2] * q[2])
RSub(p, q) == Rat(p[1] * q[2] - q[1] * p[2], p[2] * q[2])
RMul(p, q) == Rat(p[1] * q[1], p[2] * q[2])
RDiv(p, q) == Rat(p[1] * q[2], p[2] * q[1])

---------------------------------------------------------------------------
(* Array helpers (JavaScript semantics) *)

\* Array.prototype.map is written as a function over the array's indices,
\* Array.prototype.filter as SelectSeq.

\* Array.prototype.splice start index: clamped to [0, length], a negative
\* index counts from the end.  Returns the 0-based position.
SpliceStart(len, index) ==
    IF index < 0 THEN Max(len + index, 0) ELSE Min(index, len)

\* s.splice(index, deleteCount, ...items), the resulting array
Splice(s, index, deleteCount, items) ==
    LET start == SpliceStart(Len(s), index)
        del == Max(0, Min(deleteCount, Len(s) - start))
    IN SubSeq(s, 1, start) \o items \o SubSeq(s, start + del + 1, Len(s))

\* findIndex: the 0-based index of the first clip with this id, or -1
FindIndex(clips, clipId) ==
    IF \E i \in 1..Len(clips) : clips[i].id = clipId
    THEN (CHOOSE i \in 1..Len(clips) :
             /\ clips[i].id = clipId
             /\ \A j \in 1..(i - 1) : clips[j].id # clipId) - 1
    ELSE -1

\* a ?? b
Coalesce(opt, default) == IF opt = Undef THEN default ELSE opt[1]

\* tracks.find(t => t.id === trackId): Some(track), or Undef
FindTrack(trs, trackId) ==
    IF \E i \in 1..Len(trs) : trs[i].id = trackId
    THEN Some(trs[CHOOSE i \in 1..Len(trs) :
                     /\ trs[i].id = trackId
                     /\ \A j \in 1..(i - 1) : trs[j].id # trackId])
    ELSE Undef

\* fromTrack?.clips.find(clip => clip.id === clipId): Some(clip), or Undef
FindClip(track, clipId) ==
    IF track = Undef THEN Undef
    ELSE IF FindIndex(track[1].clips, clipId) = -1 THEN Undef
    ELSE Some(track[1].clips[FindIndex(track[1].clips, clipId) + 1])

---------------------------------------------------------------------------
(* Queries over the track list *)

ClipEnd(clip) == clip.startTime + clip.duration

RECURSIVE ClipsMaxEnd(_, _)
ClipsMaxEnd(clips, acc) ==
    IF clips = <<>> THEN acc
    ELSE ClipsMaxEnd(Tail(clips), Max(acc, ClipEnd(Head(clips))))

RECURSIVE TracksMaxEnd(_, _)
TracksMaxEnd(trs, acc) ==
    IF trs = <<>> THEN acc
    ELSE TracksMaxEnd(Tail(trs), Max(acc, ClipsMaxEnd(Head(trs).clips, 0)))

TrackIds(trs) == {trs[i].id : i \in 1..Len(trs)}
AllClips(trs) == UNION {{trs[i].clips[j] : j \in 1..Len(trs[i].clips)} : i \in 1..Len(trs)}
ClipIds(trs) == {c.id : c \in AllClips(trs)}


---------------------------------------------------------------------------
(* The store operations as functions of the track list *)

\* `${type.charAt(0).toUpperCase() + type.slice(1)} Track`
TrackName(type) ==
    CASE type = "video" -> "Video Track"
      [] type = "audio" -> "Audio Track"
      [] type = "effects" -> "Effects Track"

NewTrack(id, type) ==
    [id |-> id, name |-> TrackName(type), type |-> type, clips |-> <<>>]

\* addClipToTrack: the start time computed for the new clip
AddClipStartTime(trs, trackId) ==
    LET track == FindTrack(trs, trackId)
    IN IF track # Undef THEN ClipsMaxEnd(track[1].clips, 0) ELSE 0

\* mutant of NewClip: ...clipData spread last, so the caller's startTime wins
NewClip_SpreadLast(clipData, id, startTime) ==
    [id |-> id,
     mediaId |-> clipData.mediaId,
     name |-> clipData.name,
     duration |-> clipData.duration,
     originalDuration |-> clipData.duration,
     trimStart |-> 0,
     trimEnd |-> clipData.duration,
     startTime |-> clipData.startTime]

\* addClipToTrack: { ...clipData, id, originalDuration, trimStart, trimEnd, startTime }
NewClip(clipData, id, startTime) ==
    [id |-> id,
     mediaId |-> clipData.mediaId,
     name |-> clipData.name,
     duration |-> clipData.duration,
     originalDuration |-> clipData.duration,
     trimStart |-> 0,
     trimEnd |-> clipData.duration,
     startTime |-> startTime]

\* mutant of TracksWithClipAdded: the track id is not compared
TracksWithClipAdded_AnyTrack(trs, trackId, newClip) ==
    [trackIdx \in DOMAIN trs |-> LET track == trs[trackIdx] IN
       [track EXCEPT !.clips = Append(track.clips, newClip)]]

TracksWithClipAdded(trs, trackId, newClip) ==
    [trackIdx \in DOMAIN trs |-> LET track == trs[trackIdx] IN
        IF track.id = trackId
        THEN [track EXCEPT !.clips = Append(track.clips, newClip)]
        ELSE track]

\* mutant of TracksWithClipRemoved: the track id is not compared
TracksWithClipRemoved_AnyTrack(trs, trackId, clipId) ==
    [trackIdx \in DOMAIN trs |-> LET track == trs[trackIdx] IN
        [track EXCEPT !.clips = SelectSeq(track.clips, LAMBDA clip : clip.id # clipId)]]

TracksWithClipRemoved(trs, trackId, clipId) ==
    [trackIdx \in DOMAIN trs |-> LET track == trs[trackIdx] IN
        IF track.id = trackId
        THEN [track EXCEPT !.clips = SelectSeq(track.clips, LAMBDA clip : clip.id # clipId)]
        ELSE track]

TracksAfterMove(trs, fromTrackId, toTrackId, clipId, insertIndex) ==
    LET clipToMove == FindClip(FindTrack(trs, fromTrackId), clipId)
    IN IF clipToMove = Undef THEN trs
       ELSE [trackIdx \in DOMAIN trs |-> LET track == trs[trackIdx] IN
              IF track.id = fromTrackId
              THEN [track EXCEPT !.clips = SelectSeq(track.clips, LAMBDA clip : clip.id # clipId)]
              ELSE IF track.id = toTrackId
              THEN LET index == Coalesce(insertIndex, Len(track.clips))
                   IN [track EXCEPT !.clips = Splice(track.clips, index, 0, <<clipToMove[1]>>)]
              ELSE track]

TracksAfterReorder(trs, trackId, clipId, newIndex) ==
    [trackIdx \in DOMAIN trs |-> LET track == trs[trackIdx] IN
        IF track.id # trackId THEN track
        ELSE LET clipIndex == FindIndex(track.clips, clipId)
             IN IF clipIndex = -1 THEN track
                ELSE LET movedClip == track.clips[clipIndex + 1]
                         removed == Splice(track.clips, clipIndex, 1, <<>>)
                     IN [track EXCEPT !.clips = Splice(removed, newIndex, 0, <<movedClip>>)]]

\* Every clip in the store was built by addClipToTrack or splitClip and so has
\* trimStart and trimEnd set: clip.trimStart ?? 0 is clip.trimStart, and
\* clip.trimEnd ?? clip.originalDuration is clip.trimEnd.

\* trimClip: Math.max(0, Math.min(newTrimStart, clip.originalDuration))
ValidTrimStart(clip, trimStart) ==
    Max(0, Min(Coalesce(trimStart, clip.trimStart), clip.originalDuration))

\* trimClip: Math.max(validTrimStart + 0.1, Math.min(newTrimEnd, clip.originalDuration))
ValidTrimEnd(clip, trimStart, trimEnd) ==
    Max(ValidTrimStart(clip, trimStart) + 1,
        Min(Coalesce(trimEnd, clip.trimEnd), clip.originalDuration))

\* mutant of TrimStartTime: shifted by the requested, unclamped trimStart
TrimStartTime_Unclamped(clip, trimStart) ==
    IF trimStart # Undef
    THEN clip.startTime + (trimStart[1] - clip.trimStart)
    ELSE clip.startTime

\* trimClip: the start time of the trimmed clip
TrimStartTime(clip, trimStart) ==
    IF trimStart # Undef
    THEN clip.startTime + (ValidTrimStart(clip, trimStart) - clip.trimStart)
    ELSE clip.startTime

\* mutant of TrimmedClip: duration is not recomputed
TrimmedClip_StaleDuration(clip, trimStart, trimEnd) ==
    [clip EXCEPT !.trimStart = ValidTrimStart(clip, trimStart),
                 !.trimEnd = ValidTrimEnd(clip, trimStart, trimEnd),
                 !.startTime = TrimStartTime(clip, trimStart)]

TrimmedClip(clip, trimStart, trimEnd) ==
    [clip EXCEPT !.trimStart = ValidTrimStart(clip, trimStart),
                 !.trimEnd = ValidTrimEnd(clip, trimStart, trimEnd),
                 !.duration = ValidTrimEnd(clip, trimStart, trimEnd)
                              - ValidTrimStart(clip, trimStart),
                 !.startTime = TrimStartTime(clip, trimStart)]

TracksAfterTrim(trs, trackId, clipId, trimStart, trimEnd) ==
    [trackIdx \in DOMAIN trs |-> LET track == trs[trackIdx] IN
        IF track.id # trackId THEN track
        ELSE [track EXCEPT !.clips = [clipIdx \in DOMAIN track.clips |-> LET clip == track.clips[clipIdx] IN
                 IF clip.id # clipId THEN clip
                 ELSE TrimmedClip(clip, trimStart, trimEnd)]]]

\* mutant of ActualSplitTime: splitTime taken as an offset into the media
ActualSplitTime_Absolute(clip, splitTime) == splitTime

\* splitClip: (originalClip.trimStart ?? 0) + splitTime
ActualSplitTime(clip, splitTime) == clip.trimStart + splitTime

SplitFirstClip(clip, splitTime, id) ==
    [clip EXCEPT !.id = id,
                 !.name = Append(clip.name, "(1)"),
                 !.trimEnd = ActualSplitTime(clip, splitTime),
                 !.duration = ActualSplitTime(clip, splitTime) - clip.trimStart]

SplitSecondClip(clip, splitTime, id) ==
    [clip EXCEPT !.id = id,
                 !.name = Append(clip.name, "(2)"),
                 !.trimStart = ActualSplitTime(clip, splitTime),
                 !.duration = clip.trimEnd - ActualSplitTime(clip, splitTime),
                 !.startTime = clip.startTime
                               + SplitFirstClip(clip, splitTime, id).duration]

\* splitClip finds the clip, and so draws two ids
SplitFinds(trs, trackId, clipId) ==
    \E i \in 1..Len(trs) :
        trs[i].id = trackId /\ FindIndex(trs[i].clips, clipId) # -1

\* mutant of TracksAfterSplit: the two clips are inserted, the original stays
TracksAfterSplit_KeepsOriginal(trs, trackId, clipId, splitTime, id1, id2) ==
    [trackIdx \in DOMAIN trs |-> LET track == trs[trackIdx] IN
        IF track.id # trackId THEN track
        ELSE LET clipIndex == FindIndex(track.clips, clipId)
             IN IF clipIndex = -1 THEN track
                ELSE LET originalClip == track.clips[clipIndex + 1]
                     IN [track EXCEPT !.clips =
                            Splice(track.clips, clipIndex, 0,
                                   <<SplitFirstClip(originalClip, splitTime, id1),
                                     SplitSecondClip(originalClip, splitTime, id2)>>)]]

TracksAfterSplit(trs, trackId, clipId, splitTime, id1, id2) ==
    [trackIdx \in DOMAIN trs |-> LET track == trs[trackIdx] IN
        IF track.id # trackId THEN track
        ELSE LET clipIndex == FindIndex(track.clips, clipId)
             IN IF clipIndex = -1 THEN track
                ELSE LET originalClip == track.clips[clipIndex + 1]
                     IN [track EXCEPT !.clips =
                            Splice(track.clips, clipIndex, 1,
                                   <<SplitFirstClip(originalClip, splitTime, id1),
                                     SplitSecondClip(originalClip, splitTime, id2)>>)]]

TracksAfterStartTime(trs, fromTrackId, toTrackId, clipId, newStartTime) ==
    LET clipToMove == FindClip(FindTrack(trs, fromTrackId), clipId)
    IN IF clipToMove = Undef THEN trs
       ELSE LET updatedClip == [clipToMove[1] EXCEPT !.startTime = newStartTime]
            IN [trackIdx \in DOMAIN trs |-> LET track == trs[trackIdx] IN
                 IF track.id = fromTrackId /\ fromTrackId = toTrackId
                 THEN [track EXCEPT !.clips = [clipIdx \in DOMAIN track.clips |-> LET clip == track.clips[clipIdx] IN
                          IF clip.id = clipId THEN updatedClip ELSE clip]]
                 ELSE IF track.id = fromTrackId
                 THEN [track EXCEPT !.clips = SelectSeq(track.clips, LAMBDA clip : clip.id # clipId)]
                 ELSE IF track.id = toTrackId
                 THEN [track EXCEPT !.clips = Append(track.clips, updatedClip)]
                 ELSE track]

\* mutant of RecomputedTotalDuration: the clips are not looked at
RecomputedTotalDuration_FloorOnly(trs) == 300 * 10

\* updateTotalDuration: Math.max(maxDuration, 300)
RecomputedTotalDuration(trs) == Max(TracksMaxEnd(trs, 0), 300 * 10)

\* setPlayheadPosition: Math.max(0, position)
NewPlayheadPosition(position) == Max(0, position)

\* mutant of ExtendedTotalDuration: a position exactly 30 s before the end
\* extends as well
ExtendedTotalDuration_Inclusive(total, position) ==
    IF NewPlayheadPosition(position) >= total - 30 * 10
    THEN Max(total + 60 * 10, NewPlayheadPosition(position) + 60 * 10)
    ELSE total

\* setPlayheadPosition: the total duration after the call
ExtendedTotalDuration(total, position) ==
    IF NewPlayheadPosition(position) > total - 30 * 10
    THEN Max(total + 60 * 10, NewPlayheadPosition(position) + 60 * 10)
    ELSE total

\* setZoomLevel: Math.max(0.1, Math.min(level, 10))
ClampedLevel(level) == RMax(Rat(1, 10), RMin(level, RInt(10)))

\* mutant of ZoomViewportDuration: the level is clamped from below only
ZoomViewportDuration_NoUpperClamp(level) ==
    RDiv(RInt(60 * 10), RMax(Rat(1, 10), level))

\* setZoomLevel: baseViewportDuration / clampedLevel
ZoomViewportDuration(level) == RDiv(RInt(60 * 10), ClampedLevel(level))

\* setScrollPosition: the clamped position
ClampedScroll(position, total, viewport) ==
    LET maxScroll == RMax(RInt(0), RSub(RInt(total), viewport))
    IN RMax(RInt(0), RMin(position, maxScroll))

\* zoomIn: Math.min(state.zoomLevel * 1.5, 10)
ZoomInLevel(level) == RMin(RMul(level, Rat(3, 2)), RInt(10))

\* zoomOut: Math.max(state.zoomLevel / 1.5, 0.1)
ZoomOutLevel(level) == RMax(RDiv(level, Rat(3, 2)), Rat(1, 10))

---------------------------------------------------------------------------
(* IEEE-754 binary64 arithmetic, for the zoom level where rounding matters. *)
(* A positive double is [m |-> mantissa, e |-> exponent] with value        *)
(* mantissa * 2^e and 2^52 <= mantissa < 2^53.  A mantissa, and any other   *)
(* natural number below 2^58, is a pair <<hi, lo>> with value              *)
(* hi * 2^27 + lo and 0 <= lo < 2^27.  Results are rounded to nearest,     *)
(* ties to even.                                                           *)

Limb == 2^27
MantissaMin == <<2^25, 0>>
MantissaLimit == <<2^26, 0>>

BigNorm(hi, lo) == <<hi + (lo \div Limb), lo % Limb>>
BigLt(a, b) == a[1] < b[1] \/ (a[1] = b[1] /\ a[2] < b[2])
BigLe(a, b) == a[1] < b[1] \/ (a[1] = b[1] /\ a[2] <= b[2])
BigSub(a, b) ==
    IF a[2] >= b[2] THEN <<a[1] - b[1], a[2] - b[2]>>
    ELSE <<a[1] - b[1] - 1, a[2] + Limb - b[2]>>
BigTimes(a, k) == BigNorm(a[1] * k, a[2] * k)
BigPlus(a, k) == BigNorm(a[1], a[2] + k)
BigHalf(a) == <<a[1] \div 2, (a[1] % 2) * (Limb \div 2) + (a[2] \div 2)>>
BigOdd(a) == a[2] % 2 = 1

\* the double nearest to big * 2^e, where sticky says that bits below big
\* were already dropped: big is halved until it fits 53 bits, the last bit
\* dropped is the guard bit
RECURSIVE RoundF64(_, _, _, _)
RoundF64(big, e, guard, sticky) ==
    IF ~BigLt(big, MantissaLimit)
    THEN RoundF64(BigHalf(big), e + 1, BigOdd(big), sticky \/ guard)
    ELSE IF guard /\ (sticky \/ BigOdd(big))
    THEN IF BigPlus(big, 1) = MantissaLimit
         THEN [m |-> MantissaMin, e |-> e + 1]
         ELSE [m |-> BigPlus(big, 1), e |-> e]
    ELSE [m |-> big, e |-> e]

\* a number literal with a small positive integer value
RECURSIVE IntF64(_, _)
IntF64(n, e) ==
    IF n >= 2^25 THEN [m |-> <<n, 0>>, e |-> e - 27]
    ELSE IntF64(2 * n, e - 1)

LeF64(a, b) == a.e < b.e \/ (a.e = b.e /\ BigLe(a.m, b.m))
MinF64(a, b) == IF LeF64(a, b) THEN a ELSE b
MaxF64(a, b) == IF LeF64(b, a) THEN a ELSE b

\* long division of mantissas, bit by bit until the quotient has 55 bits:
\* <<floor(num * 2^steps / den), remainder, steps>>
RECURSIVE BigQuotient(_, _, _, _)
BigQuotient(rem, den, quot, steps) ==
    LET bit == IF BigLe(den, rem) THEN 1 ELSE 0
        rest == IF bit = 1 THEN BigSub(rem, den) ELSE rem
        q == BigPlus(BigTimes(quot, 2), bit)
    IN IF ~BigLt(q, <<Limb, 0>>) THEN <<q, rest, steps>>
       ELSE BigQuotient(BigTimes(rest, 2), den, q, steps + 1)

\* a / b
DivF64(a, b) ==
    LET qr == BigQuotient(a.m, b.m, <<0, 0>>, 0)
    IN RoundF64(qr[1], a.e - b.e - qr[3], FALSE, qr[2] # <<0, 0>>)

\* a * 1.5: the exact product is 3 * mantissa * 2^(e - 1)
TimesThreeHalvesF64(a) == RoundF64(BigTimes(a.m, 3), a.e - 1, FALSE, FALSE)

\* the next double above a
SuccF64(a) ==
    IF BigPlus(a.m, 1) = MantissaLimit THEN [m |-> MantissaMin, e |-> a.e + 1]
    ELSE [m |-> BigPlus(a.m, 1), e |-> a.e]

\* a and b are at most n doubles apart
RECURSIVE WithinUlps(_, _, _)
WithinUlps(a, b, n) ==
    \/ a = b
    \/ n > 0 /\ (WithinUlps(SuccF64(a), b, n - 1) \/ WithinUlps(a, SuccF64(b), n - 1))

ZeroF64 == [m |-> <<0, 0>>, e |-> 0]
OneF64 == IntF64(1, 0)
TenF64 == IntF64(10, 0)
SixtyF64 == IntF64(60, 0)
\* the literals 0.1 and 1.5: the doubles nearest to 1/10 and 3/2
TenthF64 == DivF64(OneF64, TenF64)
ThreeHalvesF64 == DivF64(IntF64(3, 0), IntF64(2, 0))

\* setZoomLevel: Math.max(0.1, Math.min(level, 10))
ClampedLevelF64(level) == MaxF64(TenthF64, MinF64(level, TenF64))

\* setZoomLevel: baseViewportDuration / clampedLevel, in seconds
ZoomViewportDurationF64(level) == DivF64(SixtyF64, ClampedLevelF64(level))

\* zoomIn: Math.min(state.zoomLevel * 1.5, 10)
ZoomInLevelF64(level) == MinF64(TimesThreeHalvesF64(level), TenF64)

\* mutant of ZoomOutLevelF64: divides by 2
ZoomOutLevelF64_ByTwo(level) == MaxF64(DivF64(level, IntF64(2, 0)), TenthF64)

\* zoomOut: Math.max(state.zoomLevel / 1.5, 0.1)
ZoomOutLevelF64(level) == MaxF64(DivF64(level, ThreeHalvesF64), TenthF64)

---------------------------------------------------------------------------
(* The store: initial state and actions *)

Init ==
    /\ tracks = <<>>
    /\ playheadPosition = 0
    /\ isPlaying = FALSE
    /\ totalDuration = 0
    /\ zoomLevel = RInt(1)
    /\ scrollPosition = RInt(0)
    /\ viewportDuration = RInt(60 * 10)
    /\ nextId = 0
    /\ calls = 0
    /\ timelineIsPlaying = FALSE
    /\ playbackIntervalRef = Undef
    /\ intervals = {}
    /\ nextTimer = 0
    /\ listeners = <<>>
    /\ pressed = FALSE

\* every store call counts against the run's bound; a store call does not
\* touch the preview panel or the registered listeners
Called ==
    /\ calls < MaxCalls
    /\ calls' = calls + 1
    /\ UNCHANGED previewVars
    /\ UNCHANGED gestureVars

\* the ids a caller may pass: every id in use, and one that does not exist
TrackIdArgs == TrackIds(tracks) \cup {NoId}
ClipIdArgs == ClipIds(tracks) \cup {NoId}

ClipDataArgs ==
    [mediaId : MediaIds, name : {<<"clip">>}, duration : Durations,
     originalDuration : OriginalDurationHints, startTime : StartHints]

addTrack(type) ==
    /\ Called
    /\ tracks' = Append(tracks, NewTrack(nextId + 1, type))
    /\ nextId' = nextId + 1
    /\ UNCHANGED <<playheadPosition, isPlaying, totalDuration, zoomLevel,
                   scrollPosition, viewportDuration>>

removeTrack(trackId) ==
    /\ Called
    /\ tracks' = SelectSeq(tracks, LAMBDA track : track.id # trackId)
    /\ UNCHANGED <<playheadPosition, isPlaying, totalDuration, zoomLevel,
                   scrollPosition, viewportDuration, nextId>>

\* nextId counts the ids that reached the store: the id drawn for a clip
\* that no track takes is dropped
addClipToTrack(trackId, clipData) ==
    LET stored == FindTrack(tracks, trackId) # Undef
        newClip == NewClip(clipData, nextId + 1, AddClipStartTime(tracks, trackId))
        newTracks == TracksWithClipAdded(tracks, trackId, newClip)
    IN /\ Called
       /\ tracks' = newTracks
       /\ totalDuration' = RecomputedTotalDuration(newTracks)
       /\ nextId' = IF stored THEN nextId + 1 ELSE nextId
       /\ UNCHANGED <<playheadPosition, isPlaying, zoomLevel, scrollPosition,
                      viewportDuration>>

\* mutant of removeClipFromTrack: updateTotalDuration is not called
removeClipFromTrack_StaleTotal(trackId, clipId) ==
    LET newTracks == TracksWithClipRemoved(tracks, trackId, clipId)
    IN /\ Called
       /\ tracks' = newTracks
       /\ UNCHANGED <<playheadPosition, isPlaying, totalDuration, zoomLevel,
                      scrollPosition, viewportDuration, nextId>>

removeClipFromTrack(trackId, clipId) ==
    LET newTracks == TracksWithClipRemoved(tracks, trackId, clipId)
    IN /\ Called
       /\ tracks' = newTracks
       /\ totalDuration' = RecomputedTotalDuration(newTracks)
       /\ UNCHANGED <<playheadPosition, isPlaying, zoomLevel, scrollPosition,
                      viewportDuration, nextId>>

moveClipToTrack(fromTrackId, toTrackId, clipId, insertIndex) ==
    LET newTracks == TracksAfterMove(tracks, fromTrackId, toTrackId, clipId, insertIndex)
    IN /\ Called
       /\ tracks' = newTracks
       /\ totalDuration' = RecomputedTotalDuration(newTracks)
       /\ UNCHANGED <<playheadPosition, isPlaying, zoomLevel, scrollPosition,
                      viewportDuration, nextId>>

reorderClipInTrack(trackId, clipId, newIndex) ==
    LET newTracks == TracksAfterReorder(tracks, trackId, clipId, newIndex)
    IN /\ Called
       /\ tracks' = newTracks
       /\ totalDuration' = RecomputedTotalDuration(newTracks)
       /\ UNCHANGED <<playheadPosition, isPlaying, zoomLevel, scrollPosition,
                      viewportDuration, nextId>>

trimClip(trackId, clipId, trimStart, trimEnd) ==
    LET newTracks == TracksAfterTrim(tracks, trackId, clipId, trimStart, trimEnd)
    IN /\ Called
       /\ tracks' = newTracks
       /\ totalDuration' = RecomputedTotalDuration(newTracks)
       /\ UNCHANGED <<playheadPosition, isPlaying, zoomLevel, scrollPosition,
                      viewportDuration, nextId>>

splitClip(trackId, clipId, splitTime) ==
    LET found == SplitFinds(tracks, trackId, clipId)
        newTracks == TracksAfterSplit(tracks, trackId, clipId, splitTime,
                                      nextId + 1, nextId + 2)
    IN /\ Called
       /\ tracks' = newTracks
       /\ totalDuration' = RecomputedTotalDuration(newTracks)
       /\ nextId' = IF found THEN nextId + 2 ELSE nextId
       /\ UNCHANGED <<playheadPosition, isPlaying, zoomLevel, scrollPosition,
                      viewportDuration>>

setPlayheadPosition(position) ==
    /\ Called
    /\ playheadPosition' = NewPlayheadPosition(position)
    /\ totalDuration' = ExtendedTotalDuration(totalDuration, position)
    /\ UNCHANGED <<tracks, isPlaying, zoomLevel, scrollPosition,
                   viewportDuration, nextId>>

setIsPlaying(playing) ==
    /\ Called
    /\ isPlaying' = playing
    /\ UNCHANGED <<tracks, playheadPosition, totalDuration, zoomLevel,
                   scrollPosition, viewportDuration, nextId>>

updateTotalDuration ==
    /\ Called
    /\ totalDuration' = RecomputedTotalDuration(tracks)
    /\ UNCHANGED <<tracks, playheadPosition, isPlaying, zoomLevel,
                   scrollPosition, viewportDuration, nextId>>

updateClipStartTime(fromTrackId, toTrackId, clipId, newStartTime) ==
    LET newTracks == TracksAfterStartTime(tracks, fromTrackId, toTrackId, clipId,
                                          newStartTime)
    IN /\ Called
       /\ tracks' = newTracks
       /\ totalDuration' = RecomputedTotalDuration(newTracks)
       /\ UNCHANGED <<playheadPosition, isPlaying, zoomLevel, scrollPosition,
                      viewportDuration, nextId>>

\* the three set() calls of setZoomLevel, as zoomIn/zoomOut/resetZoom reach it
ZoomLevelSet(level) ==
    /\ Called
    /\ zoomLevel' = ClampedLevel(level)
    /\ viewportDuration' = ZoomViewportDuration(level)
    /\ scrollPosition' = RInt(0)
    /\ UNCHANGED <<tracks, playheadPosition, isPlaying, totalDuration, nextId>>

setZoomLevel(level) == ZoomLevelSet(level)

setScrollPosition(position) ==
    /\ Called
    /\ scrollPosition' = ClampedScroll(position, totalDuration, viewportDuration)
    /\ UNCHANGED <<tracks, playheadPosition, isPlaying, totalDuration, zoomLevel,
                   viewportDuration, nextId>>

setViewportDuration(duration) ==
    /\ Called
    /\ viewportDuration' = RMax(RInt(1 * 10), duration)
    /\ UNCHANGED <<tracks, playheadPosition, isPlaying, totalDuration, zoomLevel,
                   scrollPosition, nextId>>

zoomIn == ZoomLevelSet(ZoomInLevel(zoomLevel))

zoomOut == ZoomLevelSet(ZoomOutLevel(zoomLevel))

resetZoom == ZoomLevelSet(RInt(1))

Next ==
    \/ \E type \in TrackTypes : addTrack(type)
    \/ \E trackId \in TrackIdArgs : removeTrack(trackId)
    \/ \E trackId \in TrackIdArgs, clipData \in ClipDataArgs :
          addClipToTrack(trackId, clipData)
    \/ \E trackId \in TrackIdArgs, clipId \in ClipIdArgs :
          removeClipFromTrack(trackId, clipId)
    \/ \E fromTrackId \in TrackIdArgs, toTrackId \in TrackIdArgs,
          clipId \in ClipIdArgs, insertIndex \in IndexArgs :
          moveClipToTrack(fromTrackId, toTrackId, clipId, insertIndex)
    \/ \E trackId \in TrackIdArgs, clipId \in ClipIdArgs,
          newIndex \in IndexArgs \ {Undef} :
          reorderClipInTrack(trackId, clipId, newIndex[1])
    \/ \E trackId \in TrackIdArgs, clipId \in ClipIdArgs,
          trimStart \in TrimStartArgs, trimEnd \in TrimEndArgs :
          trimClip(trackId, clipId, trimStart, trimEnd)
    \/ \E trackId \in TrackIdArgs, clipId \in ClipIdArgs, splitTime \in SplitTimes :
          splitClip(trackId, clipId, splitTime)
    \/ \E position \in PlayheadArgs : setPlayheadPosition(position)
    \/ \E playing \in BOOLEAN : setIsPlaying(playing)
    \/ updateTotalDuration
    \/ \E fromTrackId \in TrackIdArgs, toTrackId \in TrackIdArgs,
          clipId \in ClipIdArgs, newStartTime \in StartTimes :
          updateClipStartTime(fromTrackId, toTrackId, clipId, newStartTime)
    \/ \E level \in ZoomArgs : setZoomLevel(RInt(level))
    \/ \E position \in ScrollArgs : setScrollPosition(RInt(position))
    \/ \E duration \in ViewportArgs : setViewportDuration(RInt(duration))
    \/ zoomIn
    \/ zoomOut
    \/ resetZoom

Spec == Init /\ [][Next]_vars

---------------------------------------------------------------------------
(* The zoom operations in binary64: zoomLevel and viewportDuration (in     *)
(* seconds) are doubles, the rest of the store stays in its initial state. *)

\* levels setZoomLevel is called with, in tenths: the literals 0.1 ... 20.0
ZoomTenths == {1, 4, 7, 9, 10, 15, 32, 66, 200}

InitF64 ==
    /\ tracks = <<>>
    /\ playheadPosition = 0
    /\ isPlaying = FALSE
    /\ totalDuration = 0
    /\ zoomLevel = OneF64
    /\ scrollPosition = ZeroF64
    /\ viewportDuration = SixtyF64
    /\ nextId = 0
    /\ calls = 0
    /\ timelineIsPlaying = FALSE
    /\ playbackIntervalRef = Undef
    /\ intervals = {}
    /\ nextTimer = 0
    /\ listeners = <<>>
    /\ pressed = FALSE

ZoomLevelSetF64(level) ==
    /\ Called
    /\ zoomLevel' = ClampedLevelF64(level)
    /\ viewportDuration' = ZoomViewportDurationF64(level)
    /\ scrollPosition' = ZeroF64
    /\ UNCHANGED <<tracks, playheadPosition, isPlaying, totalDuration, nextId>>

setZoomLevelF64(level) == ZoomLevelSetF64(level)

zoomInF64 == ZoomLevelSetF64(ZoomInLevelF64(zoomLevel))

zoomOutF64 == ZoomLevelSetF64(ZoomOutLevelF64(zoomLevel))

resetZoomF64 == ZoomLevelSetF64(OneF64)

NextF64 ==
    \/ \E k \in ZoomTenths : setZoomLevelF64(DivF64(IntF64(k, 0), TenF64))
    \/ zoomInF64
    \/ zoomOutF64
    \/ resetZoomF64

SpecF64 == InitF64 /\ [][NextF64]_vars

---------------------------------------------------------------------------
(* Playback: the store with the preview panel mounted.  The panel's effect *)
(* has run once, with isPlaying false.  React runs an effect some time     *)
(* after the store change that made its dependencies differ; the browser   *)
(* runs the interval callback whenever the interval is set.                *)

\* mutant of ClearInterval: the interval stays set
ClearInterval_Noop(live, ref) == live

\* clearInterval(id)
ClearInterval(live, ref) == IF ref # Undef THEN live \ {ref[1]} ELSE live

\* useEffect(..., [timelineIsPlaying, setPlayheadPosition]): the render after
\* isPlaying changed is committed; the cleanup of the previous effect runs,
\* then the effect
PlaybackEffect ==
    LET cleaned == ClearInterval(intervals, playbackIntervalRef)
    IN /\ isPlaying # timelineIsPlaying
       /\ timelineIsPlaying' = isPlaying
       /\ IF isPlaying
          THEN /\ playbackIntervalRef' = Some(nextTimer + 1)
               /\ intervals' = cleaned \cup {nextTimer + 1}
               /\ nextTimer' = nextTimer + 1
          ELSE /\ playbackIntervalRef' = Undef
               /\ intervals' = ClearInterval(cleaned, playbackIntervalRef)
               /\ nextTimer' = nextTimer
       /\ UNCHANGED <<tracks, playheadPosition, isPlaying, totalDuration, zoomLevel,
                      scrollPosition, viewportDuration, nextId, calls>>
       /\ UNCHANGED gestureVars

\* the same effect run again with unchanged dependencies (the panel is
\* mounted anew with its ref kept, as React's Strict Mode and Fast Refresh
\* do): the cleanup runs, then the effect
PlaybackEffectRerun ==
    LET cleaned == ClearInterval(intervals, playbackIntervalRef)
    IN /\ isPlaying = timelineIsPlaying
       /\ timelineIsPlaying
       /\ nextTimer < MaxTimers
       /\ playbackIntervalRef' = Some(nextTimer + 1)
       /\ intervals' = cleaned \cup {nextTimer + 1}
       /\ nextTimer' = nextTimer + 1
       /\ UNCHANGED <<tracks, playheadPosition, isPlaying, totalDuration, zoomLevel,
                      scrollPosition, viewportDuration, nextId, calls,
                      timelineIsPlaying>>
       /\ UNCHANGED gestureVars

\* mutant of TickPosition: the step is 0.2 s
TickPosition_TwoTenths(current) == current + 2

\* the interval callback: currentStore.playheadPosition + 0.1, where
\* currentStore is useTimelineStore.getState() read inside the callback
TickPosition(current) == current + 1

\* the interval callback: setPlayheadPosition(newPosition)
PlaybackTick(id) ==
    /\ id \in intervals
    /\ setPlayheadPosition(TickPosition(playheadPosition))

NextPlayback ==
    \/ \E playing \in BOOLEAN : setIsPlaying(playing)
    \/ PlaybackEffect
    \/ PlaybackEffectRerun
    \/ \E id \in intervals : PlaybackTick(id)
    \/ \E position \in PlayheadArgs : setPlayheadPosition(position)
    \/ updateTotalDuration
    \/ \E type \in TrackTypes : addTrack(type)
    \/ \E trackId \in TrackIdArgs, clipData \in ClipDataArgs :
          addClipToTrack(trackId, clipData)
    \/ \E trackId \in TrackIdArgs, clipId \in ClipIdArgs :
          removeClipFromTrack(trackId, clipId)

SpecPlayback == Init /\ [][NextPlayback]_vars

---------------------------------------------------------------------------
(* Playback under fairness: the ticks are not counted against the bound of *)
(* the run, they stop when the playhead reaches PlayheadCap.  The run      *)
(* starts near the end of the timeline: the store after                    *)
(* setPlayheadPosition(299) and updateTotalDuration().                     *)

\* a seek to the end of the empty timeline
FairSeekArgs == {300 * 10}

InitPlaybackFair ==
    /\ tracks = <<>>
    /\ playheadPosition = NewPlayheadPosition(299 * 10)
    /\ isPlaying = FALSE
    /\ totalDuration = RecomputedTotalDuration(tracks)
    /\ zoomLevel = RInt(1)
    /\ scrollPosition = RInt(0)
    /\ viewportDuration = RInt(60 * 10)
    /\ nextId = 0
    /\ calls = 0
    /\ timelineIsPlaying = FALSE
    /\ playbackIntervalRef = Undef
    /\ intervals = {}
    /\ nextTimer = 0
    /\ listeners = <<>>
    /\ pressed = FALSE

\* mutant of PlaybackTickFair: the callback does nothing once the playhead
\* is at the end of the timeline
PlaybackTickFair_StopsAtEnd ==
    /\ intervals # {}
    /\ playheadPosition < PlayheadCap
    /\ playheadPosition < totalDuration
    /\ playheadPosition' = NewPlayheadPosition(TickPosition(playheadPosition))
    /\ totalDuration' = ExtendedTotalDuration(totalDuration,
                                              TickPosition(playheadPosition))
    /\ UNCHANGED <<tracks, isPlaying, zoomLevel, scrollPosition, viewportDuration,
                   nextId, calls>>
    /\ UNCHANGED previewVars
    /\ UNCHANGED gestureVars

\* the interval callback, as PlaybackTick, until the playhead is at the cap
PlaybackTickFair ==
    /\ intervals # {}
    /\ playheadPosition < PlayheadCap
    /\ playheadPosition' = NewPlayheadPosition(TickPosition(playheadPosition))
    /\ totalDuration' = ExtendedTotalDuration(totalDuration,
                                              TickPosition(playheadPosition))
    /\ UNCHANGED <<tracks, isPlaying, zoomLevel, scrollPosition, viewportDuration,
                   nextId, calls>>
    /\ UNCHANGED previewVars
    /\ UNCHANGED gestureVars

NextPlaybackFair ==
    \/ \E playing \in BOOLEAN : setIsPlaying(playing)
    \/ PlaybackEffect
    \/ PlaybackTickFair
    \/ \E position \in FairSeekArgs : setPlayheadPosition(position)
    \/ updateTotalDuration

\* the browser runs the callback of an interval that stays set, and React
\* commits the render that a change of isPlaying asked for
SpecPlaybackFair ==
    /\ InitPlaybackFair
    /\ [][NextPlaybackFair]_vars
    /\ WF_vars(PlaybackTickFair)
    /\ WF_vars(PlaybackEffect)

---------------------------------------------------------------------------
(* Drag gestures (components/editor/timeline-clip: the clip body and its   *)
(* trim handles; components/editor/timeline: the playhead).  A press       *)
(* registers a mousemove and a mouseup listener on document.  The          *)
(* listeners are closures over the props of the render at the press: the   *)
(* clip, the track id, totalDuration, viewportDuration and scrollPosition. *)
(* Pointer positions are taken where the time they map to is a whole       *)
(* number of tenths of a second.                                           *)

\* x || d
OrElse(x, d) == IF x = 0 THEN d ELSE x

\* deltaX * pixelToTime, pixelToTime = viewportDuration / containerWidth
TimeDelta(deltaX, viewport, containerWidth) ==
    RMul(RInt(deltaX), RDiv(viewport, RInt(containerWidth)))

\* what the listeners registered by a press close over
Gesture(kind, trackId, clip) ==
    [kind |-> kind, trackId |-> trackId, clip |-> clip,
     totalDuration |-> totalDuration,
     viewportDuration |-> viewportDuration,
     scrollPosition |-> scrollPosition]

\* TimelineClipComponent returns null for a clip outside the viewport:
\* clipEnd < viewportStart || clipStart > viewportEnd
ClipRendered(clip) ==
    LET clipStart == clip.startTime
        clipEnd == clip.startTime + (clip.trimEnd - clip.trimStart)
        viewportStart == scrollPosition
        viewportEnd == RAdd(scrollPosition, viewportDuration)
    IN /\ RLe(viewportStart, RInt(clipEnd))
       /\ RLe(RInt(clipStart), viewportEnd)

\* mutant of DragStartTime: no lower clamp
DragStartTime_NoFloor(g, timeDelta) ==
    Min(g.clip.startTime + timeDelta, g.totalDuration - g.clip.duration)

\* clip body: Math.max(0, Math.min(initialStartTime + timeDelta,
\* totalDuration - clip.duration))
DragStartTime(g, timeDelta) ==
    Max(0, Min(g.clip.startTime + timeDelta, g.totalDuration - g.clip.duration))

\* trim handles: clip.trimStart || 0 and clip.trimEnd || clip.originalDuration
OriginalTrimStart(g) == OrElse(g.clip.trimStart, 0)
OriginalTrimEnd(g) == OrElse(g.clip.trimEnd, g.clip.originalDuration)

\* start handle: Math.max(0, Math.min(originalTrimStart + timeDelta, maxTrimStart))
DragTrimStart(g, timeDelta) ==
    LET currentTrimEnd == OrElse(OriginalTrimEnd(g), g.clip.originalDuration)
        maxTrimStart == currentTrimEnd - 1
    IN Max(0, Min(OriginalTrimStart(g) + timeDelta, maxTrimStart))

\* end handle: Math.max(minTrimEnd, Math.min(originalTrimEnd + timeDelta,
\* clip.originalDuration))
DragTrimEnd(g, timeDelta) ==
    LET currentTrimStart == OrElse(OriginalTrimStart(g), 0)
        minTrimEnd == currentTrimStart + 1
    IN Max(minTrimEnd, Min(OriginalTrimEnd(g) + timeDelta, g.clip.originalDuration))

\* playhead: Math.max(0, scrollPosition + (x / rect.width) * viewportDuration)
\* with x = Math.max(0, Math.min(e.clientX - rect.left, rect.width))
DragPlayheadTime(g, offset, width) ==
    LET x == Max(0, Min(offset, width))
        timeInViewport == RMul(Rat(x, width), g.viewportDuration)
    IN RMax(RInt(0), RAdd(g.scrollPosition, timeInViewport))

\* every pointer event counts against the run's bound, as a store call does
PointerEvent == calls < MaxCalls /\ calls' = calls + 1

\* a press: setIsDragging(true), then the two addEventListener calls
MouseDown(kind, trackId, clip) ==
    /\ PointerEvent
    /\ ~pressed
    /\ pressed' = TRUE
    /\ listeners' = Append(listeners, Gesture(kind, trackId, clip))
    /\ UNCHANGED <<tracks, playheadPosition, isPlaying, totalDuration, zoomLevel,
                   scrollPosition, viewportDuration, nextId>>
    /\ UNCHANGED previewVars

\* TimelineClipComponent.handleMouseDown, on the body of a rendered clip
clipHandleMouseDown ==
    \E trackIdx \in DOMAIN tracks : \E clipIdx \in DOMAIN tracks[trackIdx].clips :
        /\ ClipRendered(tracks[trackIdx].clips[clipIdx])
        /\ MouseDown("clip", tracks[trackIdx].id, tracks[trackIdx].clips[clipIdx])

\* ClipTrimHandle.handleMouseDown, on the start or end handle of a rendered clip
trimHandleMouseDown(position) ==
    \E trackIdx \in DOMAIN tracks : \E clipIdx \in DOMAIN tracks[trackIdx].clips :
        /\ ClipRendered(tracks[trackIdx].clips[clipIdx])
        /\ MouseDown(position, tracks[trackIdx].id, tracks[trackIdx].clips[clipIdx])

\* Timeline.handlePlayheadMouseDown
handlePlayheadMouseDown == MouseDown("playhead", NoId, <<>>)

\* a mouseup reaches document: every registered handleMouseUp runs and
\* removes its own pair of listeners
handleMouseUp ==
    /\ PointerEvent
    /\ pressed
    /\ pressed' = FALSE
    /\ listeners' = <<>>
    /\ UNCHANGED <<tracks, playheadPosition, isPlaying, totalDuration, zoomLevel,
                   scrollPosition, viewportDuration, nextId>>
    /\ UNCHANGED previewVars

\* the press ends without a mouseup reaching document (the pointer is
\* cancelled, the window loses it); the code registers no handler for it
pointerCancel ==
    /\ PointerEvent
    /\ pressed
    /\ pressed' = FALSE
    /\ UNCHANGED <<tracks, playheadPosition, isPlaying, totalDuration, zoomLevel,
                   scrollPosition, viewportDuration, nextId, listeners>>
    /\ UNCHANGED previewVars

\* a mousemove reaches document and the i-th registered listener runs
\* (the listeners of one event run one after the other, each is a step)

\* TimelineClipComponent: handleMouseMove
clipHandleMouseMove(i, deltaX, containerWidth) ==
    LET g == listeners[i]
        timeDelta == TimeDelta(deltaX, g.viewportDuration, containerWidth)
    IN /\ g.kind = "clip"
       /\ timeDelta[2] = 1
       /\ updateClipStartTime(g.trackId, g.trackId, g.clip.id,
                              DragStartTime(g, timeDelta[1]))

\* ClipTrimHandle: handleMouseMove
trimHandleMouseMove(i, deltaX, containerWidth) ==
    LET g == listeners[i]
        timeDelta == TimeDelta(deltaX, g.viewportDuration, containerWidth)
    IN /\ g.kind \in {"start", "end"}
       /\ timeDelta[2] = 1
       /\ IF g.kind = "start"
          THEN trimClip(g.trackId, g.clip.id,
                        Some(DragTrimStart(g, timeDelta[1])),
                        Some(OriginalTrimEnd(g)))
          ELSE trimClip(g.trackId, g.clip.id,
                        Some(OriginalTrimStart(g)),
                        Some(DragTrimEnd(g, timeDelta[1])))

\* Timeline.handlePlayheadMouseDown: handleMouseMove
playheadHandleMouseMove(i, offset, width) ==
    LET g == listeners[i]
        absoluteTime == DragPlayheadTime(g, offset, width)
    IN /\ g.kind = "playhead"
       /\ absoluteTime[2] = 1
       /\ setPlayheadPosition(absoluteTime[1])

\* the store calls made around the gestures: on tracks and clips that exist
DragClipDataArgs ==
    {clipData \in ClipDataArgs : clipData.mediaId = "m1" /\ clipData.startTime = 0}
DragTrimStartArgs == {Some(20), Some(50)}
DragSeekArgs == {290 * 10}

NextDrag ==
    \/ \E trackId \in TrackIds(tracks), clip \in AllClips(tracks) :
          removeClipFromTrack(trackId, clip.id)
    \/ \E trackId \in TrackIds(tracks), clip \in AllClips(tracks),
          trimStart \in DragTrimStartArgs :
          trimClip(trackId, clip.id, trimStart, Undef)
    \/ \E trackId \in TrackIds(tracks), clip \in AllClips(tracks),
          splitTime \in SplitTimes :
          splitClip(trackId, clip.id, splitTime)
    \/ \E position \in DragSeekArgs : setPlayheadPosition(position)
    \/ clipHandleMouseDown
    \/ \E position \in {"start", "end"} : trimHandleMouseDown(position)
    \/ handlePlayheadMouseDown
    \/ handleMouseUp
    \/ pointerCancel
    \/ \E i \in DOMAIN listeners, deltaX \in PixelDeltas,
          containerWidth \in ContainerWidths :
          clipHandleMouseMove(i, deltaX, containerWidth)
    \/ \E i \in DOMAIN listeners, deltaX \in PixelDeltas,
          containerWidth \in ContainerWidths :
          trimHandleMouseMove(i, deltaX, containerWidth)
    \/ \E i \in DOMAIN listeners, offset \in RulerOffsets,
          width \in ContainerWidths :
          playheadHandleMouseMove(i, offset, width)

\* the gestures start on a timeline of two tracks, the first with one clip:
\* the store after addTrack('video'), addTrack('video') and
\* addClipToTrack(first track, clipData)
InitDrag ==
    /\ \E clipData \in DragClipDataArgs :
          tracks = TracksWithClipAdded(<<NewTrack(1, "video"), NewTrack(2, "video")>>,
                                       1, NewClip(clipData, 3, 0))
    /\ playheadPosition = 0
    /\ isPlaying = FALSE
    /\ totalDuration = RecomputedTotalDuration(tracks)
    /\ zoomLevel = RInt(1)
    /\ scrollPosition = RInt(0)
    /\ viewportDuration = RInt(60 * 10)
    /\ nextId = 3
    /\ calls = 0
    /\ timelineIsPlaying = FALSE
    /\ playbackIntervalRef = Undef
    /\ intervals = {}
    /\ nextTimer = 0
    /\ listeners = <<>>
    /\ pressed = FALSE

SpecDrag == InitDrag /\ [][NextDrag]_vars

---------------------------------------------------------------------------
(* The preview panel (components/editor/preview-panel) *)

\* playhead positions getActiveClip is evaluated at, besides the playhead
PlayheadProbes == {0, 30, 50}

\* mutant of ActiveInClips: a clip is active at its end as well
RECURSIVE ActiveInClips_ClosedEnd(_, _, _)
ActiveInClips_ClosedEnd(clips, position, mediaItems) ==
    IF clips = <<>> THEN Undef
    ELSE LET clip == Head(clips)
             clipStart == clip.startTime
             clipEnd == clip.startTime + clip.duration
         IN IF /\ position >= clipStart /\ position <= clipEnd
               /\ clip.mediaId \in mediaItems
            THEN Some(clip)
            ELSE ActiveInClips_ClosedEnd(Tail(clips), position, mediaItems)

\* getActiveClip, inner loop: the first clip of the track that holds the
\* position and whose media item exists; mediaItems is the set of the ids of
\* the media store's items
RECURSIVE ActiveInClips(_, _, _)
ActiveInClips(clips, position, mediaItems) ==
    IF clips = <<>> THEN Undef
    ELSE LET clip == Head(clips)
             clipStart == clip.startTime
             clipEnd == clip.startTime + clip.duration
         IN IF /\ position >= clipStart /\ position < clipEnd
               /\ clip.mediaId \in mediaItems
            THEN Some(clip)
            ELSE ActiveInClips(Tail(clips), position, mediaItems)

\* getActiveClip, outer loop: Some(clip), or Undef for null
RECURSIVE getActiveClip(_, _, _)
getActiveClip(trs, position, mediaItems) ==
    IF trs = <<>> THEN Undef
    ELSE LET found == ActiveInClips(Head(trs).clips, position, mediaItems)
         IN IF found # Undef THEN found
            ELSE getActiveClip(Tail(trs), position, mediaItems)

---------------------------------------------------------------------------
(* Properties *)

ClipsOnTrackSet(clips) == {clips[j] : j \in 1..Len(clips)}

\* the clips with this id on the track(s) with this id
ClipsOn(trs, trackId, clipId) ==
    {c \in AllClips(SelectSeq(trs, LAMBDA track : track.id = trackId)) : c.id = clipId}

\* 0 <= trimStart < trimEnd <= originalDuration, and at least 0.1 s long
TrimRangeValid(c) ==
    /\ 0 <= c.trimStart
    /\ c.trimStart < c.trimEnd
    /\ c.trimEnd <= c.originalDuration
    /\ c.trimEnd - c.trimStart >= 1

\* C1: after any trimClip call on an existing clip, whatever values are
\* supplied, the clip has 0 <= trimStart < trimEnd <= originalDuration and
\* trimEnd - trimStart >= 0.1.
C1_TrimInvariant ==
    [][\A trackId \in TrackIdArgs, clipId \in ClipIdArgs,
          trimStart \in TrimStartArgs, trimEnd \in TrimEndArgs :
          trimClip(trackId, clipId, trimStart, trimEnd)
             => \A c \in ClipsOn(tracks', trackId, clipId) : TrimRangeValid(c)]_vars

\* C2: in every state reachable from the initial store state by any
\* sequence of store operations, totalDuration >= 300.
C2_DurationFloor == totalDuration >= 300 * 10

\* C3: in every reachable state, totalDuration >= startTime + duration for
\* every clip on every track.
C3_TotalCoversClips ==
    \A c \in AllClips(tracks) : totalDuration >= c.startTime + c.duration

\* a clip was dragged beyond the 300 s floor and a second track exists
C3_Witness ==
    /\ Len(tracks) >= 2
    /\ \E c \in AllClips(tracks) :
          c.startTime + c.duration > 300 * 10 /\ totalDuration >= c.startTime + c.duration

\* the track with this id and the 1-based position of the clip on it
TrackAt(trs, trackId) == FindTrack(trs, trackId)[1]
ClipPos(trs, trackId, clipId) == FindIndex(TrackAt(trs, trackId).clips, clipId) + 1

C5_SplitKeepsClipInvariant ==
    [][\A trackId \in TrackIds(tracks), clipId \in ClipIds(tracks), t \in SplitTimes :
          LET o == TrackAt(tracks, trackId).clips[ClipPos(tracks, trackId, clipId)]
          IN (/\ SplitFinds(tracks, trackId, clipId)
              /\ TrimRangeValid(o) /\ o.duration >= 1
              /\ 0 <= t /\ t <= o.duration
              /\ splitClip(trackId, clipId, t))
                => \A c \in AllClips(tracks') : TrimRangeValid(c) /\ c.duration >= 1]_vars

\* C6: in every reachable state every clip has duration = trimEnd - trimStart.
C6_DurationIsTrimRange ==
    \A c \in AllClips(tracks) : c.duration = c.trimEnd - c.trimStart

\* the two halves of a clip whose tail was trimmed and that was then split
C6_Witness ==
    \E a, b \in AllClips(tracks) :
        /\ a.name = <<"clip", "(1)">> /\ b.name = <<"clip", "(2)">>
        /\ a.trimEnd = b.trimStart /\ b.trimStart > 0
        /\ a.duration > 0 /\ b.duration > 0
        /\ b.trimEnd < b.originalDuration

\* C7: in every reachable state every clip has startTime >= 0.
C7_StartTimeNonNegative ==
    \A c \in AllClips(tracks) : c.startTime >= 0

\* the clip is on the track with this id
OnTrack(trs, trackId, clipId) == ClipsOn(trs, trackId, clipId) # {}

\* C8: removeClipFromTrack, trimClip, splitClip, reorderClipInTrack,
\* moveClipToTrack and updateClipStartTime, called with a (source) trackId
\* that does not exist or a clipId that is not on that track, leave the
\* track list unchanged: in every reachable state the track list each of
\* them stores for such ids is the current one.
C8_MissingIdsLeaveTracks ==
    \A trackId \in TrackIdArgs, clipId \in ClipIdArgs :
       ~OnTrack(tracks, trackId, clipId) =>
          /\ TracksWithClipRemoved(tracks, trackId, clipId) = tracks
          /\ \A trimStart \in TrimStartArgs, trimEnd \in TrimEndArgs :
                TracksAfterTrim(tracks, trackId, clipId, trimStart, trimEnd) = tracks
          /\ \A t \in SplitTimes :
                TracksAfterSplit(tracks, trackId, clipId, t, nextId + 1, nextId + 2) = tracks
          /\ \A newIndex \in IndexArgs \ {Undef} :
                TracksAfterReorder(tracks, trackId, clipId, newIndex[1]) = tracks
          /\ \A toTrackId \in TrackIdArgs, insertIndex \in IndexArgs :
                TracksAfterMove(tracks, trackId, toTrackId, clipId, insertIndex) = tracks
          /\ \A toTrackId \in TrackIdArgs, newStartTime \in StartTimes :
                TracksAfterStartTime(tracks, trackId, toTrackId, clipId, newStartTime) = tracks

\* two tracks, two clips on the second only: the first track's id with a
\* clip of the second names a clip that is not on that track
C8_Witness ==
    /\ Len(tracks) = 2
    /\ tracks[1].clips = <<>>
    /\ Len(tracks[2].clips) = 2
    /\ ~OnTrack(tracks, tracks[1].id, tracks[2].clips[1].id)
    /\ OnTrack(tracks, tracks[2].id, tracks[2].clips[1].id)

\* C9 as stated: addClipToTrack with a trackId that does not exist leaves the
\* whole TimelineState as it was.  Stated for the pre-states in which the
\* 300 s floor already holds.
C9_MissingTrackIsNoOp ==
    [][\A trackId \in TrackIdArgs, clipData \in ClipDataArgs :
          (/\ trackId \notin TrackIds(tracks)
           /\ totalDuration >= 300 * 10
           /\ addClipToTrack(trackId, clipData))
             => UNCHANGED <<tracks, playheadPosition, totalDuration, zoomLevel,
                            scrollPosition, viewportDuration>>]_vars

\* C9 as amended: addClipToTrack with a trackId that does not exist leaves
\* tracks, playheadPosition, isPlaying, zoomLevel, scrollPosition and
\* viewportDuration as they were, and sets totalDuration to the larger of
\* 300 s and the latest clip end.
C9_MissingTrackKeepsAllButTotal ==
    [][\A trackId \in TrackIdArgs, clipData \in ClipDataArgs :
          (trackId \notin TrackIds(tracks) /\ addClipToTrack(trackId, clipData))
             => /\ UNCHANGED <<tracks, playheadPosition, isPlaying, zoomLevel,
                               scrollPosition, viewportDuration>>
                /\ totalDuration' >= 300 * 10
                /\ \A c \in AllClips(tracks) : totalDuration' >= c.startTime + c.duration
                /\ \/ totalDuration' = 300 * 10
                   \/ \E c \in AllClips(tracks) : totalDuration' = c.startTime + c.duration]_vars

\* the playhead has auto-extended the total duration past every clip and
\* the floor, the zoom has changed, and a call can be made
C9_Witness ==
    /\ calls < MaxCalls
    /\ Len(tracks) >= 1
    /\ totalDuration > 300 * 10
    /\ \A c \in AllClips(tracks) : c.startTime + c.duration < totalDuration
    /\ playheadPosition > 0
    /\ zoomLevel # RInt(1)

\* C10: addClipToTrack on an existing track appends the new clip as the last
\* list element with startTime = max(0, latest end of the clips already on
\* the track), whatever startTime the caller passes, and with trimStart = 0
\* and trimEnd = duration.
C10_AddAppends ==
    [][\A trackId \in TrackIds(tracks), clipData \in ClipDataArgs :
          addClipToTrack(trackId, clipData)
             => LET before == TrackAt(tracks, trackId).clips
                    after == TrackAt(tracks', trackId).clips
                    new == after[Len(after)]
                IN /\ Len(after) = Len(before) + 1
                   /\ SubSeq(after, 1, Len(before)) = before
                   /\ new.id \notin (ClipIds(tracks) \cup TrackIds(tracks))
                   /\ new.startTime >= 0
                   /\ \A c \in ClipsOnTrackSet(before) : new.startTime >= c.startTime + c.duration
                   /\ \/ new.startTime = 0
                      \/ \E c \in ClipsOnTrackSet(before) :
                            new.startTime = c.startTime + c.duration
                   /\ new.trimStart = 0
                   /\ new.trimEnd = clipData.duration
                   /\ new.duration = clipData.duration]_vars

\* two adds of durations 5 s and 3 s on an empty track: start times 0 and 5 s
C10_Witness ==
    \E i \in 1..Len(tracks) :
        /\ Len(tracks[i].clips) = 2
        /\ tracks[i].clips[1].name = <<"clip">> /\ tracks[i].clips[2].name = <<"clip">>
        /\ tracks[i].clips[1].duration = 50 /\ tracks[i].clips[1].startTime = 0
        /\ tracks[i].clips[2].duration = 30 /\ tracks[i].clips[2].startTime = 50
        /\ tracks[i].clips[2].trimStart = 0 /\ tracks[i].clips[2].trimEnd = 30

\* C11: trimClip on an existing clip with trimStart supplied changes the
\* clip's startTime by exactly (validTrimStart - previous trimStart), where
\* validTrimStart is trimStart clamped to [0, originalDuration]; with only
\* trimEnd supplied (or neither) startTime is unchanged.  Stated in every
\* reachable state of the track list trimClip stores.
C11_TrimKeepsPosition ==
    \A trackId \in TrackIds(tracks), clipId \in ClipIds(tracks),
       trimStart \in TrimStartArgs, trimEnd \in TrimEndArgs :
       OnTrack(tracks, trackId, clipId)
          => LET i == ClipPos(tracks, trackId, clipId)
                 o == TrackAt(tracks, trackId).clips[i]
                 after == TracksAfterTrim(tracks, trackId, clipId, trimStart, trimEnd)
                 n == TrackAt(after, trackId).clips[i]
             IN /\ n.id = clipId
                /\ IF trimStart # Undef
                   THEN /\ n.trimStart = Max(0, Min(trimStart[1], o.originalDuration))
                        /\ n.startTime - o.startTime = n.trimStart - o.trimStart
                   ELSE n.startTime = o.startTime

\* a 5 s clip added at 0 whose head was trimmed to 2.0 s and whose tail was
\* trimmed to 4.0 s: it starts at 2.0 s
C11_Witness ==
    \E c \in AllClips(tracks) :
        /\ c.name = <<"clip">> /\ c.originalDuration = 50
        /\ c.trimStart = 20 /\ c.trimEnd = 40 /\ c.duration = 20
        /\ c.startTime = 20

\* C12: splitClip on a clip at list index i of its track puts the two new
\* clips at indices i and i + 1 in its place, with two fresh ids that differ
\* from each other and from the original id; afterwards the original id is
\* on no track, every other clip of the track keeps its fields and relative
\* order, and the other tracks are as they were.
C12_SplitReplacesInPlace ==
    [][\A trackId \in TrackIds(tracks), clipId \in ClipIds(tracks), t \in SplitTimes :
          (/\ nextId' = nextId + 2
           /\ SplitFinds(tracks, trackId, clipId)
           /\ splitClip(trackId, clipId, t))
             => LET i == ClipPos(tracks, trackId, clipId)
                    before == TrackAt(tracks, trackId).clips
                    after == TrackAt(tracks', trackId).clips
                IN /\ Len(after) = Len(before) + 1
                   /\ after[i].name = Append(before[i].name, "(1)")
                   /\ after[i + 1].name = Append(before[i].name, "(2)")
                   /\ after[i].id # after[i + 1].id
                   /\ {after[i].id, after[i + 1].id}
                         \cap (ClipIds(tracks) \cup TrackIds(tracks)) = {}
                   /\ clipId \notin ClipIds(tracks')
                   /\ SubSeq(after, 1, i - 1) = SubSeq(before, 1, i - 1)
                   /\ SubSeq(after, i + 2, Len(after)) = SubSeq(before, i + 1, Len(before))
                   /\ Len(tracks') = Len(tracks)
                   /\ \A k \in 1..Len(tracks) :
                         tracks[k].id # trackId => tracks'[k] = tracks[k]]_vars

\* the second of two clips on a track was split: the first clip is still
\* first, the halves are at indices 2 and 3
C12_Witness ==
    \E k \in 1..Len(tracks) :
        /\ Len(tracks[k].clips) = 3
        /\ tracks[k].clips[1].name = <<"clip">>
        /\ tracks[k].clips[2].name = <<"clip", "(1)">>
        /\ tracks[k].clips[3].name = <<"clip", "(2)">>
        /\ Cardinality({tracks[k].clips[j].id : j \in 1..3}) = 3

\* C13: moveClipToTrack(fromTrackId, toTrackId, clipId, insertIndex?) with
\* the clip on fromTrackId and toTrackId an existing track: afterwards the
\* clip, with startTime and every other field unchanged, is in toTrackId's
\* list, at insertIndex (or last when insertIndex is omitted) when the two
\* tracks differ, and it is no longer on fromTrackId then.  Stated for an
\* insertIndex within the destination list.
C13_MoveInserts ==
    [][\A fromTrackId \in TrackIds(tracks), toTrackId \in TrackIds(tracks),
          clipId \in ClipIds(tracks), insertIndex \in IndexArgs :
          (/\ OnTrack(tracks, fromTrackId, clipId)
           /\ \/ insertIndex = Undef
              \/ insertIndex[1] \in 0..Len(TrackAt(tracks, toTrackId).clips)
           /\ moveClipToTrack(fromTrackId, toTrackId, clipId, insertIndex))
             => LET o == TrackAt(tracks, fromTrackId).clips[ClipPos(tracks, fromTrackId, clipId)]
                    index == Coalesce(insertIndex, Len(TrackAt(tracks, toTrackId).clips))
                    dest == TrackAt(tracks', toTrackId).clips
                IN /\ o \in ClipsOnTrackSet(dest)
                   /\ fromTrackId # toTrackId
                         => /\ dest[index + 1] = o
                            /\ ~OnTrack(tracks', fromTrackId, clipId)]_vars

\* C14: updateClipStartTime(from, to, clipId, t) on a clip of track from: if
\* from = to the clip keeps its list position on that track and only its
\* startTime becomes t; if from # to the clip is removed from the source
\* track and is the last clip of the destination track, with startTime = t;
\* in both cases t is stored unclamped and all other clip fields are
\* unchanged.
C14_StartTimeUpdate ==
    [][\A fromTrackId \in TrackIds(tracks), toTrackId \in TrackIdArgs,
          clipId \in ClipIds(tracks), t \in StartTimes :
          (/\ OnTrack(tracks, fromTrackId, clipId)
           /\ updateClipStartTime(fromTrackId, toTrackId, clipId, t))
             => LET i == ClipPos(tracks, fromTrackId, clipId)
                    o == TrackAt(tracks, fromTrackId).clips[i]
                    updated == [o EXCEPT !.startTime = t]
                IN IF fromTrackId = toTrackId
                   THEN TrackAt(tracks', fromTrackId).clips
                           = [TrackAt(tracks, fromTrackId).clips EXCEPT ![i] = updated]
                   ELSE /\ ~OnTrack(tracks', fromTrackId, clipId)
                        /\ \E k \in 1..Len(tracks') :
                              /\ tracks'[k].id = toTrackId
                              /\ tracks'[k].clips = Append(tracks[k].clips, updated)]_vars

\* C15: setPlayheadPosition(p) sets playheadPosition to max(0, p); if that
\* position is less than 30 s before totalDuration (or beyond it),
\* totalDuration becomes max(totalDuration + 60, playheadPosition + 60),
\* otherwise totalDuration is unchanged; with totalDuration = 300,
\* setPlayheadPosition(290) leaves totalDuration >= 350.
C15_PlayheadAutoExtend ==
    [][\A p \in PlayheadArgs :
          setPlayheadPosition(p)
             => /\ playheadPosition' = (IF p < 0 THEN 0 ELSE p)
                /\ playheadPosition' >= 0
                /\ IF totalDuration - playheadPosition' < 30 * 10
                   THEN /\ totalDuration' >= totalDuration + 60 * 10
                        /\ totalDuration' >= playheadPosition' + 60 * 10
                        /\ totalDuration' \in {totalDuration + 60 * 10,
                                               playheadPosition' + 60 * 10}
                   ELSE totalDuration' = totalDuration
                /\ (totalDuration = 300 * 10 /\ p = 290 * 10)
                      => totalDuration' >= 350 * 10]_vars

\* the playhead was set to 290 s with totalDuration = 300 s: totalDuration
\* is 360 s
C15_Witness ==
    /\ playheadPosition = 290 * 10
    /\ totalDuration = 360 * 10

\* C16: in every reachable state scrollPosition lies in
\* [0, max(0, totalDuration - viewportDuration)], also after operations that
\* change totalDuration or viewportDuration without calling
\* setScrollPosition.
C16_ScrollInRange ==
    /\ RLe(RInt(0), scrollPosition)
    /\ RLe(scrollPosition,
           RMax(RInt(0), RSub(RInt(totalDuration), viewportDuration)))

\* C17: after setZoomLevel(level), for any level, zoomLevel is level clamped
\* to [0.1, 10], viewportDuration = 60 / zoomLevel and scrollPosition = 0;
\* zoomIn, zoomOut and resetZoom establish the same three facts for the
\* levels zoomLevel * 1.5, zoomLevel / 1.5 and 1.
C17_ZoomLevelSet ==
    [][LET clamp(level) == IF RLe(level, Rat(1, 10)) THEN Rat(1, 10)
                           ELSE IF RLe(RInt(10), level) THEN RInt(10)
                           ELSE level
           established(level) ==
               /\ zoomLevel' = clamp(level)
               /\ RMul(viewportDuration', zoomLevel') = RInt(60 * 10)
               /\ scrollPosition' = RInt(0)
       IN /\ \A level \in ZoomArgs :
                setZoomLevel(RInt(level)) => established(RInt(level))
          /\ zoomIn => established(RMul(zoomLevel, Rat(3, 2)))
          /\ zoomOut => established(RDiv(zoomLevel, Rat(3, 2)))
          /\ resetZoom => established(RInt(1))]_vars

\* the zoom level was set above the range: it is 10 and the viewport is 6 s
C17_Witness ==
    /\ zoomLevel = RInt(10)
    /\ viewportDuration = RInt(6 * 10)
    /\ scrollPosition = RInt(0)
    /\ totalDuration >= 300 * 10

\* the level a zoomOut (zoomIn) call made now would set
LevelAfterZoomOutF64(level) == ClampedLevelF64(ZoomOutLevelF64(level))
LevelAfterZoomInF64(level) == ClampedLevelF64(ZoomInLevelF64(level))

\* C18 as stated: from any zoom level L with 0.1 <= L and 1.5 * L <= 10,
\* zoomIn() followed by zoomOut() returns zoomLevel to L and
\* viewportDuration to 60 / L; likewise zoomOut() followed by zoomIn() when
\* L / 1.5 >= 0.1.  Stated of every zoomIn (zoomOut) step and the zoomOut
\* (zoomIn) call that follows it.
C18_ZoomRoundTrip ==
    [][/\ (/\ LeF64(TenthF64, zoomLevel)
           /\ LeF64(TimesThreeHalvesF64(zoomLevel), TenF64)
           /\ zoomInF64)
             => /\ LevelAfterZoomOutF64(zoomLevel') = zoomLevel
                /\ ZoomViewportDurationF64(ZoomOutLevelF64(zoomLevel'))
                      = ZoomViewportDurationF64(zoomLevel)
       /\ (/\ LeF64(TenthF64, DivF64(zoomLevel, ThreeHalvesF64))
           /\ zoomOutF64)
             => /\ LevelAfterZoomInF64(zoomLevel') = zoomLevel
                /\ ZoomViewportDurationF64(ZoomInLevelF64(zoomLevel'))
                      = ZoomViewportDurationF64(zoomLevel)]_vars

\* C18 as amended: under the same conditions the round trip returns
\* zoomLevel to L or to a double next to L, and viewportDuration to within
\* two doubles of 60 / L.
C18_ZoomRoundTripRounded ==
    [][/\ (/\ LeF64(TenthF64, zoomLevel)
           /\ LeF64(TimesThreeHalvesF64(zoomLevel), TenF64)
           /\ zoomInF64)
             => /\ WithinUlps(LevelAfterZoomOutF64(zoomLevel'), zoomLevel, 1)
                /\ WithinUlps(ZoomViewportDurationF64(ZoomOutLevelF64(zoomLevel')),
                              ZoomViewportDurationF64(zoomLevel), 2)
       /\ (/\ LeF64(TenthF64, DivF64(zoomLevel, ThreeHalvesF64))
           /\ zoomOutF64)
             => /\ WithinUlps(LevelAfterZoomInF64(zoomLevel'), zoomLevel, 1)
                /\ WithinUlps(ZoomViewportDurationF64(ZoomInLevelF64(zoomLevel')),
                              ZoomViewportDurationF64(zoomLevel), 2)]_vars

\* zoomIn and then zoomOut from the level 0.1 have left the level one
\* double above 0.1
C18_Witness ==
    /\ zoomLevel = SuccF64(TenthF64)
    /\ viewportDuration = DivF64(SixtyF64, SuccF64(TenthF64))

\* the list positions <<track, clip>> of the clips that hold the position
\* and whose media is in the registry
ActivePositions(trs, position, mediaItems) ==
    {ij \in UNION {{<<i, j>> : j \in 1..Len(trs[i].clips)} : i \in 1..Len(trs)} :
        LET clip == trs[ij[1]].clips[ij[2]]
        IN /\ clip.startTime <= position
           /\ position < clip.startTime + clip.duration
           /\ clip.mediaId \in mediaItems}

\* C19: active-clip resolution at playhead p returns the first clip, scanning
\* tracks in list order and clips in list order within each track, with
\* startTime <= p < startTime + duration and whose mediaId is in the media
\* registry, and none when there is no such clip: an earlier track wins over
\* a later one when clips overlap in time.  Stated in every reachable state
\* of the store for every registry and for the playhead and the probe
\* positions.
C19_ActiveClipIsFirstMatch ==
    \A mediaItems \in SUBSET MediaIds, p \in PlayheadProbes \cup {playheadPosition} :
        LET active == ActivePositions(tracks, p, mediaItems)
            found == getActiveClip(tracks, p, mediaItems)
        IN IF active = {} THEN found = Undef
           ELSE \E ij \in active :
                   /\ found = Some(tracks[ij[1]].clips[ij[2]])
                   /\ \A kl \in active :
                         \/ ij[1] < kl[1]
                         \/ ij[1] = kl[1] /\ ij[2] <= kl[2]

\* clips of different media on two tracks overlap at the playhead: the
\* first track's clip is active, the second's when the first's media is
\* gone, none when both are gone
C19_Witness ==
    /\ Len(tracks) = 2
    /\ Len(tracks[1].clips) = 1 /\ Len(tracks[2].clips) = 1
    /\ tracks[1].clips[1].mediaId = "m1" /\ tracks[2].clips[1].mediaId = "m2"
    /\ getActiveClip(tracks, playheadPosition, {"m1", "m2"}) = Some(tracks[1].clips[1])
    /\ getActiveClip(tracks, playheadPosition, {"m2"}) = Some(tracks[2].clips[1])
    /\ getActiveClip(tracks, playheadPosition, {}) = Undef

\* C20: no playback tick changes playheadPosition while isPlaying is false:
\* in every interleaving of setIsPlaying(false), the interval callback and
\* the effect cleanup that clears the interval, once isPlaying has become
\* false no tick advances the playhead until play is started again.
C20_NoTickWhileStopped ==
    [][(\E id \in intervals : PlaybackTick(id)) => isPlaying]_vars

\* C21: at most one tick interval is armed at any time for a mounted preview
\* panel, whatever the sequence of setIsPlaying(true)/setIsPlaying(false)
\* calls, re-renders and effect re-runs; the armed interval is the one
\* playbackIntervalRef holds, and starting play while already playing sets no
\* second one.
C21_OneInterval ==
    /\ Cardinality(intervals) <= 1
    /\ \A id \in intervals : playbackIntervalRef = Some(id)

\* C21 witness: play was started, stopped and started again (or the effect
\* re-run), and exactly one interval, not the first, is armed while playing
C21_Witness ==
    /\ isPlaying /\ timelineIsPlaying
    /\ nextTimer >= 2
    /\ intervals = {nextTimer}
    /\ calls >= 2

\* C22: in every interleaving of playback ticks with setPlayheadPosition
\* calls and clip edits, a tick sets playheadPosition to the value it has
\* immediately before the tick plus 0.1 s, never to one captured earlier; a
\* seek to p between two ticks is therefore followed by p + 0.1.
C22_TickReadsCurrent ==
    [][\A id \in intervals :
          PlaybackTick(id) => playheadPosition' = playheadPosition + 1]_vars

\* C22 witness: a tick has followed a seek to 270 s made while playing, on a
\* timeline that was edited
C22_Witness ==
    /\ playheadPosition = 2700 + 1
    /\ isPlaying
    /\ intervals # {}
    /\ tracks # <<>>

\* C23: every drag gesture that registered document mousemove/mouseup
\* listeners on press has them removed on every exit path: pointer-up,
\* pointer-cancel, and teardown of the component (the dragged clip is removed
\* or split) while the drag is in progress.  So listeners are registered only
\* while the button is held, for one gesture, and those of a clip gesture
\* only while that clip is on the timeline; no other move listener is left
\* that could mutate the timeline.
C23_ListenersRemoved ==
    /\ Len(listeners) = (IF pressed THEN 1 ELSE 0)
    /\ \A i \in DOMAIN listeners :
          listeners[i].kind # "playhead" => listeners[i].clip.id \in ClipIds(tracks)

\* the largest startTime + duration over all clips of all tracks, 0 without clips
LargestClipEnd(trs) ==
    LET ends == {ClipEnd(clip) : clip \in AllClips(trs)} \cup {0}
    IN CHOOSE end \in ends : \A other \in ends : other <= end

\* a step of one of the seven clip operations of the store
ClipOperation ==
    \/ \E trackId \in TrackIdArgs, clipData \in ClipDataArgs :
          addClipToTrack(trackId, clipData)
    \/ \E trackId \in TrackIdArgs, clipId \in ClipIdArgs :
          removeClipFromTrack(trackId, clipId)
    \/ \E fromTrackId \in TrackIdArgs, toTrackId \in TrackIdArgs,
          clipId \in ClipIdArgs, insertIndex \in IndexArgs :
          moveClipToTrack(fromTrackId, toTrackId, clipId, insertIndex)
    \/ \E fromTrackId \in TrackIdArgs, toTrackId \in TrackIdArgs,
          clipId \in ClipIdArgs, newStartTime \in StartTimes :
          updateClipStartTime(fromTrackId, toTrackId, clipId, newStartTime)
    \/ \E trackId \in TrackIdArgs, clipId \in ClipIdArgs,
          newIndex \in IndexArgs \ {Undef} :
          reorderClipInTrack(trackId, clipId, newIndex[1])
    \/ \E trackId \in TrackIdArgs, clipId \in ClipIdArgs,
          trimStart \in TrimStartArgs, trimEnd \in TrimEndArgs :
          trimClip(trackId, clipId, trimStart, trimEnd)
    \/ \E trackId \in TrackIdArgs, clipId \in ClipIdArgs, splitTime \in SplitTimes :
          splitClip(trackId, clipId, splitTime)

\* C24: immediately after each of addClipToTrack, removeClipFromTrack,
\* moveClipToTrack, updateClipStartTime, reorderClipInTrack, trimClip and
\* splitClip, totalDuration is exactly max(300 s, the largest startTime +
\* duration over all clips of all tracks), whatever an earlier playhead
\* auto-extension had made it.
C24_ClipOperationRecomputesTotal ==
    [][\/ totalDuration' = Max(300 * 10, LargestClipEnd(tracks'))
       \/ ~(/\ calls' = calls + 1
            /\ Len(tracks') = Len(tracks)
            /\ UNCHANGED <<playheadPosition, isPlaying, zoomLevel, scrollPosition,
                           viewportDuration>>
            /\ ClipOperation)]_vars

\* C24 witness: the playhead was set to 290 s, which extended totalDuration
\* to 350 s or more, and the clip added afterwards brought it back to 300 s
C24_Witness ==
    /\ calls = 3
    /\ playheadPosition = 290 * 10
    /\ Cardinality(AllClips(tracks)) = 1
    /\ totalDuration = 300 * 10

\* C25: while isPlaying stays true and the tick fires fairly, playback never
\* stalls at the end of the timeline: the playhead strictly increases at
\* every tick, whatever totalDuration is and whatever edits are interleaved,
\* and it eventually passes every time below the cap of the model.
C25_PlaybackNeverStalls ==
    /\ [][PlaybackTickFair => playheadPosition' > playheadPosition]_vars
    /\ isPlaying ~> (playheadPosition >= PlayheadCap \/ ~isPlaying)

\* C25 witness: playing, the playhead has run past the end of the timeline
\* (an edit recomputed totalDuration below it) up to the cap
C25_Witness ==
    /\ isPlaying
    /\ intervals # {}
    /\ playheadPosition = PlayheadCap
    /\ totalDuration < playheadPosition

\* the clip ids of each track, in track order
ClipIdsByTrack(trs) ==
    [trackIdx \in DOMAIN trs |->
        {trs[trackIdx].clips[clipIdx].id : clipIdx \in DOMAIN trs[trackIdx].clips}]

\* C26: during a clip-body drag every pointer move calls updateClipStartTime
\* on the clip's own track (source and destination are the track of the
\* press) with newStartTime = max(0, min(initialStartTime + timeDelta,
\* totalDuration - clip.duration)), initialStartTime being the start time
\* captured at the press and timeDelta = pixelDelta / containerWidth *
\* viewportDuration; the emitted start time is >= 0 and no clip changes track.
C26_ClipDragClamps ==
    [][\A i \in DOMAIN listeners, deltaX \in PixelDeltas, containerWidth \in ContainerWidths :
          clipHandleMouseMove(i, deltaX, containerWidth) =>
             LET g == listeners[i]
                 timeDelta == (deltaX * g.viewportDuration[1])
                              \div (containerWidth * g.viewportDuration[2])
                 newStartTime == Max(0, Min(g.clip.startTime + timeDelta,
                                            g.totalDuration - g.clip.duration))
             IN /\ newStartTime >= 0
                /\ tracks' = TracksAfterStartTime(tracks, g.trackId, g.trackId,
                                                  g.clip.id, newStartTime)
                /\ ClipIdsByTrack(tracks') = ClipIdsByTrack(tracks)
                /\ \A clip \in AllClips(tracks') : clip.id = g.clip.id =>
                      /\ clip.startTime = newStartTime
                      /\ clip.startTime >= 0]_vars

\* C26 witness: a clip is being dragged and a move far to the right has put
\* it at the clamp, totalDuration - clip.duration, away from where it was
\* pressed
C26_Witness ==
    /\ pressed
    /\ Len(listeners) = 1
    /\ listeners[1].kind = "clip"
    /\ \E clip \in AllClips(tracks) :
          /\ clip.id = listeners[1].clip.id
          /\ clip.startTime = listeners[1].totalDuration - listeners[1].clip.duration
          /\ clip.startTime # listeners[1].clip.startTime

\* C27: a head trim keeps the clip's right edge fixed: for trimClip with
\* trimStart supplied, trimEnd omitted or passed as the clip's current
\* trimEnd, and 0 <= trimStart <= trimEnd - 0.1, startTime + duration is the
\* same after the call as before, and trimming the head back to the previous
\* trimStart restores startTime, trimStart, trimEnd and duration.  Stated in
\* every reachable state of the track list trimClip stores.
C27_HeadTrimKeepsRightEdge ==
    \A trackId \in TrackIds(tracks), clipId \in ClipIds(tracks),
       trimStart \in TrimStartArgs \ {Undef} :
       OnTrack(tracks, trackId, clipId)
          => LET i == ClipPos(tracks, trackId, clipId)
                 o == TrackAt(tracks, trackId).clips[i]
             IN \A trimEnd \in {Undef, Some(o.trimEnd)} :
                   (0 <= trimStart[1] /\ trimStart[1] <= o.trimEnd - 1)
                      => LET after == TracksAfterTrim(tracks, trackId, clipId,
                                                      trimStart, trimEnd)
                             n == TrackAt(after, trackId).clips[i]
                             back == TracksAfterTrim(after, trackId, clipId,
                                                     Some(o.trimStart), trimEnd)
                             r == TrackAt(back, trackId).clips[i]
                         IN /\ n.startTime + n.duration = o.startTime + o.duration
                            /\ (0 <= o.trimStart /\ o.trimStart <= n.trimEnd - 1)
                                  => /\ r.startTime = o.startTime
                                     /\ r.trimStart = o.trimStart
                                     /\ r.trimEnd = o.trimEnd
                                     /\ r.duration = o.duration

\* C28: while a clip's end trim handle is held, every pointer move of that
\* gesture leaves the clip's startTime and trimStart as they were, although
\* the handler passes the press-time trimStart to trimClip with the new
\* trimEnd; only trimEnd and duration change, and afterwards
\* trimStart + 0.1 <= trimEnd <= originalDuration.
C28_EndHandleFrame ==
    [][\A deltaX \in PixelDeltas, containerWidth \in ContainerWidths :
          \/ ~(/\ pressed
               /\ listeners # <<>>
               /\ listeners[Len(listeners)].kind = "end"
               /\ trimHandleMouseMove(Len(listeners), deltaX, containerWidth))
          \/ LET g == listeners[Len(listeners)]
             IN \A trackIdx \in DOMAIN tracks :
                   \A clipIdx \in DOMAIN tracks[trackIdx].clips :
                      LET o == tracks[trackIdx].clips[clipIdx]
                          n == tracks'[trackIdx].clips[clipIdx]
                      IN o.id = g.clip.id
                            => /\ n.startTime = o.startTime
                               /\ n.trimStart = o.trimStart
                               /\ [n EXCEPT !.trimEnd = o.trimEnd,
                                            !.duration = o.duration] = o
                               /\ n.trimStart + 1 <= n.trimEnd
                               /\ n.trimEnd <= n.originalDuration]_vars

\* C29: clip conservation: a step of moveClipToTrack, updateClipStartTime,
\* reorderClipInTrack or trimClip, with any arguments (source and destination
\* the same track, a destination that is no track), leaves the set of clip
\* ids present across all tracks as it was.
C29_ClipConservation ==
    [][\/ ClipIds(tracks') = ClipIds(tracks)
       \/ ~(\/ \E fromTrackId \in TrackIdArgs, toTrackId \in TrackIdArgs,
                  clipId \in ClipIdArgs, insertIndex \in IndexArgs :
                  moveClipToTrack(fromTrackId, toTrackId, clipId, insertIndex)
            \/ \E fromTrackId \in TrackIdArgs, toTrackId \in TrackIdArgs,
                  clipId \in ClipIdArgs, newStartTime \in StartTimes :
                  updateClipStartTime(fromTrackId, toTrackId, clipId, newStartTime)
            \/ \E trackId \in TrackIdArgs, clipId \in ClipIdArgs,
                  newIndex \in IndexArgs \ {Undef} :
                  reorderClipInTrack(trackId, clipId, newIndex[1])
            \/ \E trackId \in TrackIdArgs, clipId \in ClipIdArgs,
                  trimStart \in TrimStartArgs, trimEnd \in TrimEndArgs :
                  trimClip(trackId, clipId, trimStart, trimEnd))]_vars

\* C30: in every reachable state the playhead is within the timeline,
\* playheadPosition <= totalDuration, however setPlayheadPosition and the
\* playback ticks interleave with the calls that recompute totalDuration.
C30_PlayheadWithinTotal == playheadPosition <= totalDuration

=============================================================================
